---- MODULE Spec2Model ----
(***************************************************************************)
(* Adaptive-tutoring decision core of the Q-A backend:                     *)
(*   routers/learning.py      update_bkt, start_session, submit_answer     *)
(*   services/rl_agent.py     load_model, get_next_action                  *)
(*   services/graph_service.py get_prerequisites, get_mastery_bottleneck   *)
(*   core/database.py         student_progress / learning_logs / sessions  *)
(*                                                                         *)
(* Python floats are modelled as exact fixed-point integers in units of    *)
(* 1/Scale, plus the one non-number NaN, for which every comparison is     *)
(* false (IEEE 754), so that min/max clamping behaves as Python's does.    *)
(***************************************************************************)
EXTENDS Integers, Naturals, Sequences, FiniteSets, TLC

VARIABLES
    \* --- update_bkt applied to drawn inputs
    bktPc, bktPrior, bktScore, bktOut,
    \* --- get_mastery_bottleneck applied to drawn inputs
    bnPc, bnDriver, bnPrereqs, bnRows, bnOut,
    \* --- get_local_graph_state_topics applied to drawn inputs
    gwPc, gwGraph, gwAnchor, gwRaises, gwOut,
    \* --- clean_json_string applied to drawn inputs
    cjPc, cjText, cjOut,
    \* --- the graph store under sync_knowledge_graph
    kgGraph,        \* the Neo4j store: HAS_TOPIC and PREREQUISITE_OF
    kgRecorded,     \* history: (subject, prerequisite, topic) per add_prerequisite
    kgQuery,        \* the latest get_prerequisites call: <<subject, topic>>
    kgOut,          \* and its result
    \* --- rl_agent module state
    model,          \* the global _model: "None" or "PPO"
    loadAttempts,   \* SpecAgent: how often load_model ran its load branch
    loaders,        \* SpecAgent: the callers whose call ran the load branch
    agentPending,   \* callers that have not yet called get_next_action
    lastObsLen,     \* len(student_state) of the latest call
    lastAction,     \* the dict the latest get_next_action call returned
    \* --- stores and request handlers
    learning_sessions,  \* table rows, session id = index
    student_progress,   \* table: (student_id, subject, topic) -> mastery
    learning_logs,      \* table rows in insertion order
    graph,          \* the Neo4j store and GraphService.driver
    reqs,           \* the submit_answer coroutines, one per slot
    submitted,      \* number of submit_answer requests issued so far
    shadow,         \* history: per mastery key, update_bkt replayed over the
                    \* scores in the order their writes reached the store
    overlapped,     \* history: students who had two handlers active at once
    started         \* history: what the latest start_session call observed
                    \* and the topic it emitted

\* ------------------------------------------------------------------ bounds
\* Total number of submit_answer requests issued in one behaviour.
MaxSubmits == 2
\* Refinement of the grid of priors and scores the pure-function checks draw.
GridRefine == 2
\* Number of get_next_action calls in the agent specification.
MaxAgentCalls == 3

\* ------------------------------------------------------- fixed-point floats
\* The finest unit: MaxSubmits successive multiplications by alpha = 1/4 of
\* grid values stay exact.
Quantum == 4 ^ MaxSubmits
\* 1.0 in model units; 0.05 = GridRefine * Quantum units.
Scale == 20 * GridRefine * Quantum
\* The float n/d, for the fractions the code writes as literals.
Frac(n, d) == (n * Scale) \div d
\* float('nan'): no number; distinct from every value the model reaches.
NaN == 0 - 1 - 1000 * Scale
IsNaN(x) == x = NaN

\* IEEE comparisons: false whenever an operand is NaN.
FLt(a, b) == ~IsNaN(a) /\ ~IsNaN(b) /\ a < b
FGt(a, b) == ~IsNaN(a) /\ ~IsNaN(b) /\ a > b
FGe(a, b) == ~IsNaN(a) /\ ~IsNaN(b) /\ a >= b
\* IEEE arithmetic: NaN propagates.
FAdd(a, b) == IF IsNaN(a) \/ IsNaN(b) THEN NaN ELSE a + b
FSub(a, b) == IF IsNaN(a) \/ IsNaN(b) THEN NaN ELSE a - b
\* Python's builtin max(a, b) / min(a, b): the second argument replaces the
\* first only when it compares strictly greater / smaller.
PyMax(a, b) == IF FGt(b, a) THEN b ELSE a
PyMin(a, b) == IF FLt(b, a) THEN b ELSE a

\* ------------------------------------------------------------- update_bkt
\* learning.py:25-28.  P_SLIP and P_GUESS are declared and never read.
P_INIT == Frac(1, 2)
P_SLIP == Frac(5, 100)
P_GUESS == Frac(15, 100)
\* learning.py:40, the presentation limits.
MasteryFloor == Frac(5, 100)
MasteryCeil == Frac(95, 100)

\* alpha * x with alpha = 0.25 (learning.py:36).
TimesAlpha(x) == IF IsNaN(x) THEN NaN ELSE x \div 4

\* Mutants of update_bkt: the clamp dropped; a learning rate of 1/2.
update_bkt_noclamp(mastery, score) ==
    FAdd(mastery, TimesAlpha(FSub(score, mastery)))
update_bkt_half(mastery, score) ==
    PyMin(PyMax(FAdd(mastery, 2 * TimesAlpha(FSub(score, mastery))),
                MasteryFloor), MasteryCeil)

\* learning.py:30-40.
update_bkt(mastery, score) ==
    LET alpha_step == TimesAlpha(FSub(score, mastery))
        new_mastery == FAdd(mastery, alpha_step)
    IN  PyMin(PyMax(new_mastery, MasteryFloor), MasteryCeil)

\* ------------------------------------------------------------------ names
\* str.lower() on the subject and topic names of the model.
Lower(s) ==
    CASE s = "Recursion" -> "recursion"
      [] s = "Loops" -> "loops"
      [] s = "Arrays" -> "arrays"
      [] s = "Topic 1" -> "topic 1"
      [] s = "CS101" -> "cs101"
      [] s = "CS102" -> "cs102"
      [] s = "General" -> "general"
      [] s = "recursion" -> "recursion"
      [] s = "Sorting" -> "sorting"
      [] s = "Trees" -> "trees"
      [] s = "loops" -> "loops"
      [] s = "Padding_Topic" -> "padding_topic"
      [] OTHER -> s

\* ------------------------------------------------- get_mastery_bottleneck
\* The mastery read for a prerequisite with no entry (graph_service.py:97).
UNSEEN_MASTERY == Frac(1, 10)
\* The remediation threshold (graph_service.py:98) and the "correct"
\* threshold (learning.py:212).
PASS_THRESHOLD == Frac(6, 10)

\* graph_service.py:95: {k.lower(): v for k, v in mastery_map.items()},
\* rows being the items in the order the store returned them; a later item
\* overwrites an earlier one with the same lowered key.
RECURSIVE lower_mastery_map(_)
lower_mastery_map(rows) ==
    IF rows = <<>> THEN <<>>
    ELSE LET n == Len(rows)
         IN (Lower(rows[n].topic) :> rows[n].mastery)
                @@ lower_mastery_map(SubSeq(rows, 1, n - 1))

\* graph_service.py:96-100: the loop over prereqs from position i on.
RECURSIVE FirstUnmastered(_, _, _, _)
FirstUnmastered(prereqs, lmap, i, unseen) ==
    IF i > Len(prereqs) THEN "None"
    ELSE LET p == prereqs[i]
             m == IF Lower(p) \in DOMAIN lmap THEN lmap[Lower(p)] ELSE unseen
         IN IF FLt(m, PASS_THRESHOLD) THEN p
            ELSE FirstUnmastered(prereqs, lmap, i + 1, unseen)

\* Mutant: an unseen prerequisite read as being at the pass threshold.
get_mastery_bottleneck_lenient(driver, prereqs, rows) ==
    IF ~driver THEN "None"
    ELSE IF prereqs = <<>> THEN "None"
    ELSE FirstUnmastered(prereqs, lower_mastery_map(rows), 1, PASS_THRESHOLD)

\* graph_service.py:81-100, with prereqs the list get_prerequisites returned
\* and rows the student's (topic, mastery) rows for the subject.
get_mastery_bottleneck(driver, prereqs, rows) ==
    IF ~driver THEN "None"
    ELSE IF prereqs = <<>> THEN "None"
    ELSE FirstUnmastered(prereqs, lower_mastery_map(rows), 1, UNSEEN_MASTERY)

\* The observation window size the agent and its callers agree on
\* (rl_agent.py:32, learning.py:109, graph_service.py:151).
WINDOW_SIZE == 9

\* ------------------------------------------------------------ graph store
\* The Neo4j store: Subject and Topic nodes are identified by name alone
\* (MERGE (t:Topic {name: ...}), graph_service.py:34-38, 50-54), so the
\* store is hasTopic, a set of <<subject, topic>> HAS_TOPIC edges, and
\* prereqOf, a set of <<prerequisite, dependent>> PREREQUISITE_OF edges.
\* driver is GraphService.driver (FALSE for None).

\* All orderings of a finite set, as sequences.
Orderings(S) ==
    {f \in [1..Cardinality(S) -> S] : \A i, j \in DOMAIN f : f[i] = f[j] => i = j}

\* graph_service.py:61-79: the possible results, the store being free to
\* return the matched rows in any order. One row per matched (s, t, p).
get_prerequisites(g, subject, topic_name) ==
    IF ~g.driver THEN {<<>>}
    ELSE LET rows == {r \in g.hasTopic \X g.prereqOf :
                        /\ Lower(r[1][1]) = Lower(subject)
                        /\ Lower(r[1][2]) = Lower(topic_name)
                        /\ r[2][2] = r[1][2]
                        /\ <<r[1][1], r[2][1]>> \in g.hasTopic}
         IN  {[i \in DOMAIN o |-> o[i][2][1]] : o \in Orderings(rows)}

\* The variable-length pattern -[:PREREQUISITE_OF*1..5]->: paths of exactly
\* d pairwise distinct relationships that end at node t ...
RECURSIVE ChainsInto(_, _, _)
ChainsInto(E, t, d) ==
    IF d = 1 THEN {<<e>> : e \in {x \in E : x[2] = t}}
    ELSE UNION {{<<e>> \o c : e \in {x \in E : x[2] = c[1][1] /\
                                   \A k \in DOMAIN c : c[k] # x}} :
                c \in ChainsInto(E, t, d - 1)}
\* ... or that start at node t.
RECURSIVE ChainsFrom(_, _, _)
ChainsFrom(E, t, d) ==
    IF d = 1 THEN {<<e>> : e \in {x \in E : x[1] = t}}
    ELSE UNION {{Append(c, e) : e \in {x \in E : x[1] = c[Len(c)][2] /\
                                     \A k \in DOMAIN c : c[k] # x}} :
                c \in ChainsFrom(E, t, d - 1)}

\* The longest path the two window queries follow (graph_service.py:115, 125)
MAX_HOPS == 5
\* and their LIMIT (graph_service.py:118, 128).
ARM_LIMIT == 4

\* ORDER BY name ASC on the model's topic names (code point order).
NameRank(n) ==
    CASE n = "Arrays" -> 1
      [] n = "Loops" -> 2
      [] n = "Recursion" -> 3
      [] n = "Sorting" -> 4
      [] n = "Topic 1" -> 5
      [] n = "Trees" -> 6
      [] n = "loops" -> 7
      [] n = "recursion" -> 8
      [] OTHER -> 9
\* A result row of a window query: [name, dist, id], id telling apart rows
\* of different paths.
RowLe(r, q) ==
    \/ r.dist < q.dist
    \/ r.dist = q.dist /\ NameRank(r.name) <= NameRank(q.name)
\* ORDER BY dist ASC, name ASC LIMIT n, then [record["name"] ...].
RECURSIVE TakeOrdered(_, _)
TakeOrdered(R, n) ==
    IF n = 0 \/ R = {} THEN <<>>
    ELSE LET r == CHOOSE x \in R : \A q \in R : RowLe(x, q)
         IN  <<r.name>> \o TakeOrdered(R \ {r}, n - 1)

\* The (s, t) pairs the first MATCH of each query binds.
MatchedAnchors(g, subject, anchor) ==
    {st \in g.hasTopic :
        Lower(st[1]) = Lower(subject) /\ Lower(st[2]) = Lower(anchor)}
ChainsUpTo(Chains(_, _, _), E, t) ==
    UNION {Chains(E, t, d) : d \in 1..MAX_HOPS}

\* graph_service.py:112-119 and 133-134: the prereq_query rows, one per
\* matched anchor and path whose start node is a topic of the subject.
PrereqRows(g, subject, anchor) ==
    UNION {{[name |-> c[1][1], dist |-> Len(c), id |-> <<st, c>>] :
                c \in {x \in ChainsUpTo(ChainsInto, g.prereqOf, st[2]) :
                          <<st[1], x[1][1]>> \in g.hasTopic}} :
           st \in MatchedAnchors(g, subject, anchor)}
\* graph_service.py:122-129 and 136-137: the postreq_query rows.
PostreqRows(g, subject, anchor) ==
    UNION {{[name |-> c[Len(c)][2], dist |-> Len(c), id |-> <<st, c>>] :
                c \in {x \in ChainsUpTo(ChainsFrom, g.prereqOf, st[2]) :
                          <<st[1], x[Len(x)][2]>> \in g.hasTopic}} :
           st \in MatchedAnchors(g, subject, anchor)}

\* graph_service.py:145-148: duplicates removed, first occurrence kept.
RECURSIVE unique_topics(_)
unique_topics(state_topics) ==
    IF state_topics = <<>> THEN <<>>
    ELSE LET n == Len(state_topics)
             head == unique_topics(SubSeq(state_topics, 1, n - 1))
         IN  IF \E k \in DOMAIN head : head[k] = state_topics[n] THEN head
             ELSE Append(head, state_topics[n])

\* graph_service.py:102-155 when no query raises.
get_local_graph_state_topics(g, subject, anchor_topic) ==
    IF ~g.driver THEN <<anchor_topic>>
    ELSE LET prereqs == TakeOrdered(PrereqRows(g, subject, anchor_topic), ARM_LIMIT)
             postreqs == TakeOrdered(PostreqRows(g, subject, anchor_topic), ARM_LIMIT)
             u == unique_topics(<<anchor_topic>> \o prereqs \o postreqs)
         IN  SubSeq(u, 1, IF Len(u) < WINDOW_SIZE THEN Len(u) ELSE WINDOW_SIZE)

\* Mutant: a window query that raises gives the empty list.
LocalTopics_empty(g, subject, anchor_topic, raises) ==
    IF g.driver /\ raises THEN <<>>
    ELSE get_local_graph_state_topics(g, subject, anchor_topic)
\* graph_service.py:131-155: a window query that raises gives [anchor].
LocalTopics(g, subject, anchor_topic, raises) ==
    IF g.driver /\ raises THEN <<anchor_topic>>
    ELSE get_local_graph_state_topics(g, subject, anchor_topic)

\* --------------------------------------------------------------- rl_agent
\* diff_map = {0: "Easy", 1: "Medium", 2: "Hard"} (rl_agent.py:36, 65).
diff_map == <<"Easy", "Medium", "Hard">>
\* What one run of the load branch can meet: PPO.load returns, PPO.load
\* raises, or os.path.exists(MODEL_PATH) is false.
LoadOutcomes == {"loaded", "raises", "missing"}
\* The actions the policy artifact can predict: the combined
\* (topic slot, difficulty) space of its interface.
PolicyActions == 0..(WINDOW_SIZE * Len(diff_map) - 1)

\* rl_agent.py:12-23: the value of _model after load_model(), given what the
\* load branch meets if it runs.
load_model(m, outcome) ==
    IF m = "None"
    THEN IF outcome = "loaded" THEN "PPO" ELSE "None"
    ELSE m
\* rl_agent.py:14: load_model enters its load branch.
RunsLoad(m) == m = "None"

\* rl_agent.py:25-73, with m = load_model()'s return value, bucket the
\* random.randint(0, 2) draw and action_raw the policy's prediction.
get_next_action(m, obsLen, bucket, action_raw) ==
    IF m = "None" \/ obsLen # WINDOW_SIZE
    THEN [action_type |-> "bucket_selection_fallback",
          bucket_index |-> bucket,
          difficulty |-> diff_map[bucket + 1],
          raw_action |-> bucket]
    ELSE [action_type |-> "bucket_selection",
          bucket_index |-> action_raw,
          difficulty |-> IF action_raw \in 0..2 THEN diff_map[action_raw + 1]
                         ELSE "Medium",
          raw_action |-> action_raw]

\* learning.py:121-122, 329-330: what the callers read from the dict.
ActionTopicIndex(action) ==
    IF "topic_index" \in DOMAIN action THEN action.topic_index ELSE 0
ActionDifficulty(action) ==
    IF "difficulty" \in DOMAIN action THEN action.difficulty ELSE "Medium"

\* ---------------------------------------------------------------- stores
\* The evaluations table is written outside this core; here exam "E1" lists
\* three topics and every other exam id has no row.
\* database.py:398-432.
get_evaluation_topics(exam_id) ==
    IF exam_id = "E1" THEN <<"Recursion", "Loops", "Arrays">> ELSE <<>>

\* database.py:463-466: whether a row exists, and the row.
HasSession(session_id) == session_id \in DOMAIN learning_sessions
get_session_by_id(session_id) == learning_sessions[session_id]

\* database.py:346-353: {topic: mastery} of one student and subject, as the
\* set of its (topic, mastery) rows.
get_student_progress(sp, student_id, subject) ==
    {[topic |-> k[3], mastery |-> sp[k]] :
        k \in {x \in DOMAIN sp : x[1] = student_id /\ x[2] = subject}}
\* mastery_map.get(t, default)
MapGet(rows, t, default) ==
    IF \E r \in rows : r.topic = t
    THEN (CHOOSE r \in rows : r.topic = t).mastery
    ELSE default

\* Mutant: the write keyed by subject and topic only, the student left out.
update_student_progress_shared(sp, student_id, subject, topic, new_mastery) ==
    (<<1, subject, topic>> :> new_mastery) @@ sp
\* Mutant: the write replaces the table by the one record.
update_student_progress_only(sp, student_id, subject, topic, new_mastery) ==
    <<student_id, subject, topic>> :> new_mastery
\* database.py:356-366: INSERT ... ON CONFLICT DO UPDATE.
update_student_progress(sp, student_id, subject, topic, new_mastery) ==
    (<<student_id, subject, topic>> :> new_mastery) @@ sp

\* ------------------------------------------------------- submit_answer parts
\* What the grading collaborator can answer: JSON holding a dict with a
\* numeric score, any other text (with or without the word "correct"), or an
\* exception from the call.
GraderRawScores == {Frac(1, 5), 8 * Scale, NaN}
GraderResponses ==
    [kind : {"json"}, raw : GraderRawScores, says_correct : {FALSE}]
        \cup [kind : {"text"}, raw : {0}, says_correct : BOOLEAN]
        \cup [kind : {"raise"}, raw : {0}, says_correct : {FALSE}]

\* raw_score / 10.0
Div10(x) == IF IsNaN(x) THEN NaN ELSE x \div 10

\* learning.py:200-225: score, feedback and correct from the response.
ParseGrade(resp) ==
    IF resp.kind = "json"
    THEN LET score == IF FGt(resp.raw, Scale) THEN Div10(resp.raw) ELSE resp.raw
         IN  [score |-> score, feedback |-> "data.feedback",
              correct |-> FGe(score, PASS_THRESHOLD)]
    ELSE IF resp.says_correct
         THEN [score |-> Frac(8, 10), feedback |-> "clean_text", correct |-> TRUE]
         ELSE [score |-> Frac(4, 10), feedback |-> "clean_text", correct |-> FALSE]

\* learning.py:228: req.topic_name, or "Topic {topic_index+1}" without one.
RequestTopicKey(topic_name, topic_index) ==
    IF topic_name # "None" THEN topic_name
    ELSE IF topic_index = 0 THEN "Topic 1" ELSE "Topic n"

\* learning.py:236-239: the first authorized topic equal ignoring case.
AlignTopic(topic_key, authorized_list) ==
    LET hit == {i \in DOMAIN authorized_list :
                  Lower(authorized_list[i]) = Lower(topic_key)}
    IN  IF hit = {} THEN topic_key
        ELSE authorized_list[CHOOSE i \in hit : \A j \in hit : i <= j]

\* learning.py:258: the action code written to the log.
ActionTaken(topic_index, difficulty) ==
    topic_index * 3 + (IF difficulty = "Easy" THEN 0
                       ELSE IF difficulty = "Medium" THEN 1 ELSE 2)

\* Mutant: the bottleneck becomes the next topic at an unforced difficulty.
Remediate_unforced(bottleneck) ==
    IF bottleneck # "None"
    THEN [next_topic_name |-> bottleneck, next_diff |-> "Medium"]
    ELSE [next_topic_name |-> "None", next_diff |-> "None"]
\* learning.py:264-273: next_topic_name and next_diff after the lookup.
Remediate(bottleneck) ==
    IF bottleneck # "None"
    THEN [next_topic_name |-> bottleneck, next_diff |-> "Easy"]
    ELSE [next_topic_name |-> "None", next_diff |-> "None"]

PAD_NAME == "Padding_Topic"
PAD_VALUE == Frac(1, 10)
\* learning.py:109-110, 318-319: while len(local_topics) < 9: append(PAD_NAME)
PadTopics(local_topics) ==
    [i \in 1..(IF Len(local_topics) < WINDOW_SIZE THEN WINDOW_SIZE
                ELSE Len(local_topics)) |->
        IF i <= Len(local_topics) THEN local_topics[i] ELSE PAD_NAME]
\* Mutant: a window topic without a record is observed at the padding value.
StateVector_pad_default(padded, rows) ==
    [i \in DOMAIN padded |->
        IF padded[i] = PAD_NAME THEN PAD_VALUE
        ELSE MapGet(rows, padded[i], PAD_VALUE)]
\* learning.py:112-117, 321-326.
StateVector(padded, rows) ==
    [i \in DOMAIN padded |->
        IF padded[i] = PAD_NAME THEN PAD_VALUE
        ELSE MapGet(rows, padded[i], P_INIT)]
\* learning.py:125-129, 333-336: the topic at the chosen slot, or the anchor.
SelectTopic(padded, action_idx, anchor) ==
    IF 0 <= action_idx /\ action_idx < WINDOW_SIZE /\ padded[action_idx + 1] # PAD_NAME
    THEN padded[action_idx + 1]
    ELSE anchor
\* learning.py:125-129: start_session also resets the slot to 0.
SelectSlot(padded, action_idx) ==
    IF 0 <= action_idx /\ action_idx < WINDOW_SIZE /\ padded[action_idx + 1] # PAD_NAME
    THEN action_idx
    ELSE 0

\* graph_service.py:29-43: MERGE the subject, MERGE the topic node of that
\* name -- one node per name, whatever the subject -- and MERGE HAS_TOPIC.
create_topic(g, subject, topic_name) ==
    IF ~g.driver THEN g
    ELSE [g EXCEPT !.hasTopic = @ \cup {<<subject, topic_name>>}]
\* graph_service.py:45-59: MERGE both topic nodes by name and the edge
\* (p)-[:PREREQUISITE_OF]->(t); the call takes no subject.
add_prerequisite(g, topic_name, prereq_name) ==
    IF ~g.driver THEN g
    ELSE [g EXCEPT !.prereqOf = @ \cup {<<prereq_name, topic_name>>}]

\* ------------------------------------------------------ clean_json_string
\* A text is a sequence of characters. str.find / str.rfind: the 0-based
\* index of the first / last occurrence, -1 without one.
Find(text, ch) ==
    IF \E i \in DOMAIN text : text[i] = ch
    THEN (CHOOSE i \in DOMAIN text :
            text[i] = ch /\ \A k \in 1..(i - 1) : text[k] # ch) - 1
    ELSE 0 - 1
RFind(text, ch) ==
    IF \E i \in DOMAIN text : text[i] = ch
    THEN (CHOOSE i \in DOMAIN text :
            text[i] = ch /\ \A k \in (i + 1)..Len(text) : text[k] # ch) - 1
    ELSE 0 - 1
\* text[a:b] for 0 <= a and 0 <= b.
Slice(text, a, b) ==
    LET hi == IF b > Len(text) THEN Len(text) ELSE b
    IN  IF hi <= a THEN <<>> ELSE SubSeq(text, a + 1, hi)

\* Mutant: the slice ends at the first closing brace.
clean_json_string_first_close(text) ==
    LET start == Find(text, "{")
        end == Find(text, "}")
    IN  IF start # 0 - 1 /\ end # 0 - 1 THEN Slice(text, start, end + 1)
        ELSE text
\* main2.py:253-262 (and its copies evaluator.py:256-265,
\* question_generator.py:222, main.py:318).
clean_json_string(text) ==
    LET start == Find(text, "{")
        end == RFind(text, "}")
    IN  IF start # 0 - 1 /\ end # 0 - 1 THEN Slice(text, start, end + 1)
        ELSE text

\* ============================================================ specifications
\* ---------------------------------------------------------------- SpecBkt
\* update_bkt applied once to a prior and a score drawn from a grid.
\* Priors are masteries in [0,1]; scores also take values a grader can
\* produce outside [0,1].
GridValues == {i * Quantum : i \in 0..(20 * GridRefine)}
BktScores == GridValues \cup {0 - Scale, Frac(3, 2)}

bktVars == <<bktPc, bktPrior, bktScore, bktOut>>
bnVars == <<bnPc, bnDriver, bnPrereqs, bnRows, bnOut>>
agentVars == <<model, loadAttempts, loaders, agentPending, lastObsLen, lastAction>>
mainVars == <<learning_sessions, student_progress, learning_logs, graph, reqs, submitted, shadow,
              overlapped, started>>
gwVars == <<gwPc, gwGraph, gwAnchor, gwRaises, gwOut>>
kgVars == <<kgGraph, kgRecorded, kgQuery, kgOut>>
cjVars == <<cjPc, cjText, cjOut>>
vars == <<bktVars, bnVars, gwVars, kgVars, cjVars, agentVars, mainVars>>

BktParked ==
    /\ bktPc = "off" /\ bktPrior = 0 /\ bktScore = 0 /\ bktOut = 0
BnParked ==
    /\ bnPc = "off" /\ bnDriver = FALSE /\ bnPrereqs = <<>> /\ bnRows = <<>>
    /\ bnOut = "None"
GwParked ==
    /\ gwPc = "off" /\ gwGraph = [driver |-> FALSE, hasTopic |-> {}, prereqOf |-> {}]
    /\ gwAnchor = "None" /\ gwRaises = FALSE /\ gwOut = <<>>
KgParked ==
    /\ kgGraph = [driver |-> FALSE, hasTopic |-> {}, prereqOf |-> {}]
    /\ kgRecorded = {} /\ kgQuery = <<>> /\ kgOut = <<>>
CjParked == cjPc = "off" /\ cjText = <<>> /\ cjOut = <<>>
AgentParked ==
    /\ model = "None" /\ loadAttempts = 0 /\ loaders = {} /\ agentPending = {}
    /\ lastObsLen = 0 /\ lastAction = [action_type |-> "none"]
MainParked ==
    /\ learning_sessions = <<>> /\ student_progress = <<>>
    /\ learning_logs = <<>>
    /\ graph = [driver |-> FALSE, hasTopic |-> {}, prereqOf |-> {}]
    /\ reqs = <<>> /\ submitted = 0 /\ shadow = <<>> /\ overlapped = {}
    /\ started = <<>>

BktInit ==
    /\ bktPc = "input"
    /\ bktPrior \in GridValues
    /\ bktScore \in BktScores
    /\ bktOut = 0
    /\ BnParked /\ GwParked /\ KgParked /\ CjParked /\ AgentParked /\ MainParked

\* new_m = update_bkt(prev_m, score)
UpdateBktCall ==
    /\ bktPc = "input"
    /\ bktOut' = update_bkt(bktPrior, bktScore)
    /\ bktPc' = "done"
    /\ UNCHANGED <<bktPrior, bktScore, bnVars, gwVars, kgVars, cjVars, agentVars, mainVars>>

BktNext == UpdateBktCall
SpecBkt == BktInit /\ [][BktNext]_vars

\* --------------------------------------------------------- SpecBottleneck
\* get_mastery_bottleneck applied once to a prerequisite list and a mastery
\* map drawn from small sets, names differing only in letter case included.
MaxPrereqs == 2
\* Longest text given to clean_json_string.
MaxTextLen == 5
BnNames == {"Loops", "loops", "Arrays"}
BnMasteries == {Frac(3, 10), Frac(6, 10), Frac(8, 10)}
SeqsUpTo(S, n) == UNION {[1..k -> S] : k \in 0..n}
\* The rows of one student and subject: (topic, mastery), topics distinct
\* (the table's key), in any order.
BnRowSets ==
    {rows \in SeqsUpTo([topic : BnNames, mastery : BnMasteries],
                        Cardinality(BnNames)) :
        \A i, j \in 1..Len(rows) : rows[i].topic = rows[j].topic => i = j}

BnInit ==
    /\ bnPc = "input"
    /\ bnDriver \in BOOLEAN
    /\ bnPrereqs \in SeqsUpTo(BnNames, MaxPrereqs)
    \* get_prerequisites returns [] without a driver (graph_service.py:65)
    /\ ~bnDriver => bnPrereqs = <<>>
    /\ bnRows \in BnRowSets
    /\ bnOut = "None"
    /\ BktParked /\ GwParked /\ KgParked /\ CjParked /\ AgentParked /\ MainParked

GetMasteryBottleneckCall ==
    /\ bnPc = "input"
    /\ bnOut' = get_mastery_bottleneck(bnDriver, bnPrereqs, bnRows)
    /\ bnPc' = "done"
    /\ UNCHANGED <<bnDriver, bnPrereqs, bnRows, bktVars, gwVars, kgVars, cjVars, agentVars, mainVars>>

BnNext == GetMasteryBottleneckCall
SpecBottleneck == BnInit /\ [][BnNext]_vars

\* --------------------------------------------------------------- SpecAgent
\* MaxAgentCalls callers each call get_next_action once. The function is
\* synchronous and its callers are coroutines of one event loop, so a call
\* runs to completion before the next one starts.
Callers == 1..MaxAgentCalls
ObsLengths == {WINDOW_SIZE, 3}

AgentInit ==
    /\ model = "None" /\ loadAttempts = 0 /\ loaders = {}
    /\ agentPending = Callers
    /\ lastObsLen = 0 /\ lastAction = [action_type |-> "none"]
    /\ BktParked /\ BnParked /\ GwParked /\ KgParked /\ CjParked /\ MainParked

GetNextActionCall(c) ==
    /\ c \in agentPending
    /\ \E outcome \in LoadOutcomes, obsLen \in ObsLengths,
          bucket \in 0..2, action_raw \in PolicyActions :
          LET m == load_model(model, outcome) IN
          /\ loadAttempts' = IF RunsLoad(model) THEN loadAttempts + 1
                              ELSE loadAttempts
          /\ loaders' = IF RunsLoad(model) THEN loaders \cup {c} ELSE loaders
          /\ model' = m
          /\ lastObsLen' = obsLen
          /\ lastAction' = get_next_action(m, obsLen, bucket, action_raw)
    /\ agentPending' = agentPending \ {c}
    /\ UNCHANGED <<bktVars, bnVars, gwVars, kgVars, cjVars, mainVars>>

AgentNext == \E c \in Callers : GetNextActionCall(c)
SpecAgent == AgentInit /\ [][AgentNext]_vars

\* --------------------------------------------------------------- SpecClean
\* clean_json_string applied once to a text of up to MaxTextLen characters:
\* braces, a letter and a line break.
TextChars == {"{", "}", "a", "\n"}
Texts == UNION {[1..n -> TextChars] : n \in 0..MaxTextLen}

CleanInit ==
    /\ cjPc = "input" /\ cjText \in Texts /\ cjOut = <<>>
    /\ BktParked /\ BnParked /\ GwParked /\ KgParked /\ AgentParked /\ MainParked
CleanJsonStringCall ==
    /\ cjPc = "input"
    /\ cjOut' = clean_json_string(cjText)
    /\ cjPc' = "done"
    /\ UNCHANGED <<cjText, bktVars, bnVars, gwVars, kgVars, agentVars, mainVars>>
CleanNext == CleanJsonStringCall
SpecClean == CleanInit /\ [][CleanNext]_vars

\* ---------------------------------------------------------------- SpecSync
\* sync_knowledge_graph filling the graph store for two subjects whose
\* syllabi share topic names, and get_prerequisites reading it.
SyncSubjects == {"CS101", "CS102"}
SyncTopics == {"Recursion", "Loops"}

SyncInit ==
    /\ kgGraph = [driver |-> TRUE, hasTopic |-> {}, prereqOf |-> {}]
    /\ kgRecorded = {} /\ kgQuery = <<>> /\ kgOut = <<>>
    /\ BktParked /\ BnParked /\ GwParked /\ CjParked /\ AgentParked /\ MainParked

\* question_generator.py:304-307: an item of the mapping without (further)
\* prerequisites; also the topic extraction's create_topic (line 273).
SyncTopic(subject, t_name) ==
    /\ kgGraph' = create_topic(kgGraph, subject, t_name)
    /\ UNCHANGED <<kgRecorded, kgQuery, kgOut>>
    /\ UNCHANGED <<bktVars, bnVars, gwVars, cjVars, agentVars, mainVars>>
\* question_generator.py:307-311: one prerequisite p of an item of subject.
SyncPrerequisite(subject, t_name, p) ==
    /\ kgGraph' = add_prerequisite(
            create_topic(create_topic(kgGraph, subject, t_name), subject, p),
            t_name, p)
    /\ kgRecorded' = kgRecorded \cup {<<subject, p, t_name>>}
    /\ UNCHANGED <<kgQuery, kgOut>>
    /\ UNCHANGED <<bktVars, bnVars, gwVars, cjVars, agentVars, mainVars>>
\* graph_service.py:61-79.
GetPrerequisitesCall(subject, topic_name) ==
    /\ \E out \in get_prerequisites(kgGraph, subject, topic_name) : kgOut' = out
    /\ kgQuery' = <<subject, topic_name>>
    /\ UNCHANGED <<kgGraph, kgRecorded>>
    /\ UNCHANGED <<bktVars, bnVars, gwVars, cjVars, agentVars, mainVars>>
SyncNext ==
    \E subject \in SyncSubjects, t_name \in SyncTopics :
        \/ SyncTopic(subject, t_name)
        \/ \E p \in SyncTopics \ {t_name} : SyncPrerequisite(subject, t_name, p)
        \/ GetPrerequisitesCall(subject, t_name)
SpecSync == SyncInit /\ [][SyncNext]_vars

\* --------------------------------------------------------------- SpecGraph
\* get_local_graph_state_topics applied once to a graph of subject CS101
\* and an anchor name. The graphs are those over five topics whose
\* PREREQUISITE_OF edges are any subset of GwEdges, which holds chains,
\* two paths to one topic and cycles through the anchor "Recursion";
\* add_prerequisite (graph_service.py:45-59) checks none of these.
GwTopics == {"Arrays", "Loops", "Recursion", "Sorting", "Trees"}
GwEdges ==
    {<<"Arrays", "Recursion">>, <<"Loops", "Recursion">>,
     <<"Sorting", "Arrays">>, <<"Sorting", "Loops">>, <<"Trees", "Sorting">>,
     <<"Recursion", "Loops">>, <<"Recursion", "Trees">>}
GwGraphs ==
    [driver : BOOLEAN, hasTopic : {{<<"CS101", n>> : n \in GwTopics}},
     prereqOf : SUBSET GwEdges]
\* The anchor as the caller spells it.
GwAnchors == {"Recursion", "recursion"}

GwInit ==
    /\ gwPc = "input"
    /\ gwGraph \in GwGraphs
    /\ gwAnchor \in GwAnchors
    /\ gwRaises \in BOOLEAN
    /\ gwOut = <<>>
    /\ BktParked /\ BnParked /\ KgParked /\ CjParked /\ AgentParked /\ MainParked

\* learning.py:103, 312: the call; gwRaises says whether session.run raises.
GetLocalGraphStateTopicsCall ==
    /\ gwPc = "input"
    /\ gwOut' = LocalTopics(gwGraph, "CS101", gwAnchor, gwRaises)
    /\ gwPc' = "done"
    /\ UNCHANGED <<gwGraph, gwAnchor, gwRaises, kgVars, cjVars, bktVars, bnVars, agentVars, mainVars>>
GwNext == GetLocalGraphStateTopicsCall
SpecGraph == GwInit /\ [][GwNext]_vars

\* -------------------------------------------------------------------- Spec
\* The request handlers of learning.py over the shared stores. Each handler
\* is a coroutine: it runs from one await of a store or collaborator to the
\* next without interruption, and other handlers run in between.
\* Two handlers run at a time, which is what a race between requests takes,
\* for two students.
Handlers == {1, 2}
Students == {1, 2}
StartSubjects == {"CS101"}
ExamIds == {"E1"}
\* What a submit_answer request carries besides the session and student.
\* The client names the topic in lower case; the exam's list has "Recursion".
ReqTopicNames == {"recursion"}
ReqTopicIndexes == {0}
\* The session ids requests name: those of the rows start_session wrote.
ReqSessionIds == DOMAIN learning_sessions
\* The grader's answers in this specification: a JSON score of 0.2, of 8
\* (out of 10) or NaN, or an exception.
MainGraderResponses ==
    {resp \in GraderResponses : resp.kind \in {"json", "raise"}}
ReqDifficulties == {"Medium"}
\* The graph the behaviour runs against: no driver, or subject CS101 with
\* Loops a prerequisite of Recursion.
Graphs ==
    {[driver |-> FALSE, hasTopic |-> {}, prereqOf |-> {}],
     [driver |-> TRUE,
      hasTopic |-> {<<"CS101", "Recursion">>, <<"CS101", "Loops">>},
      prereqOf |-> {<<"Loops", "Recursion">>}]}

\* No start_session call yet.
NoStart ==
    [student_id |-> 0, anchor |-> "None", window |-> <<>>, local_topics |-> <<>>,
     state_vector |-> <<>>, action_idx |-> 0, topic_name |-> "None"]

IdleReq ==
    [pc |-> "idle", session_id |-> 0, student_id |-> 0, topic_name |-> "None",
     topic_index |-> 0, difficulty |-> "None", subject |-> "None",
     score |-> 0, feedback |-> "None", correct |-> FALSE,
     topic_key |-> "None", prev_m |-> 0, new_m |-> 0,
     bottleneck |-> "None", next_topic_name |-> "None", next_diff |-> "None",
     agent_called |-> FALSE, next_question |-> "None",
     \* whether get_mastery_bottleneck was called; the window
     \* get_local_graph_state_topics returned, the padded window, the
     \* observation and the slot read from the agent's answer
     lookup_called |-> FALSE, window |-> <<>>, local_topics |-> <<>>,
     state_vector |-> <<>>, action_idx |-> 0,
     \* history, kept when requests are serial: the mastery store and the
     \* log as they were when the request arrived
     progress_before |-> <<>>, logs_before |-> <<>>,
     \* the store operation that raised, when one did
     fail |-> "None"]

Init ==
    /\ learning_sessions = <<>>
    /\ student_progress = <<>>
    /\ learning_logs = <<>>
    /\ graph \in Graphs
    /\ reqs = [h \in Handlers |-> IdleReq]
    /\ submitted = 0
    /\ shadow = <<>>
    /\ overlapped = {}
    /\ started = NoStart
    /\ model = "None" /\ loadAttempts = 0 /\ loaders = {} /\ agentPending = {}
    /\ lastObsLen = 0 /\ lastAction = [action_type |-> "none"]
    /\ BktParked /\ BnParked /\ GwParked /\ KgParked /\ CjParked

Active(r) == r.pc \notin {"idle", "done", "error"}

\* What the surroundings of the handlers do in a behaviour: the requests
\* clients send (serial: a client waits for the answer before it sends the
\* next request; repeat: a client sends a second request only to repeat one
\* that ended in a store error), the grader's answers, whether a store statement succeeds
\* ("write_fails": update_student_progress raises, "log_fails":
\* log_learning_step raises) and whether a graph query raises.
\* In Spec: concurrent requests, no store or graph fault.
RaceEnv ==
    [serial |-> FALSE, repeat |-> FALSE, max_submits |-> MaxSubmits,
     students |-> Students,
     session_ids |-> ReqSessionIds, topic_names |-> ReqTopicNames,
     topic_indexes |-> ReqTopicIndexes, difficulties |-> ReqDifficulties,
     grader |-> MainGraderResponses, store |-> {"ok"},
     graph_raises |-> {FALSE}]
otherVars == <<bktVars, bnVars, gwVars, kgVars, cjVars, loadAttempts, loaders, agentPending,
               lastObsLen, lastAction>>

\* What one get_next_action call can leave and return, as the callers use
\* it: the new _model, action.get("topic_index", 0) and
\* action.get("difficulty", "Medium").
AgentResults(m, obsLen) ==
    {[model |-> load_model(m, outcome),
      topic_index |-> ActionTopicIndex(
          get_next_action(load_model(m, outcome), obsLen, bucket, action_raw)),
      difficulty |-> ActionDifficulty(
          get_next_action(load_model(m, outcome), obsLen, bucket, action_raw))] :
        outcome \in LoadOutcomes, bucket \in 0..2, action_raw \in PolicyActions}

\* learning.py:61-161. The handler writes the session row and nothing else;
\* it reads the mastery map and the window and consults the agent.
start_session(student_id, subject, exam_id) ==
    \* each student starts one session; students are interchangeable and
    \* start in the order of their ids
    /\ \A i \in DOMAIN learning_sessions : learning_sessions[i].student_id < student_id
    /\ \A s \in Students : s < student_id =>
            \E i \in DOMAIN learning_sessions : learning_sessions[i].student_id = s
    /\ learning_sessions' = Append(learning_sessions,
            [student_id |-> student_id, subject |-> subject, exam_id |-> exam_id])
    /\ LET topics == get_evaluation_topics(exam_id)
           topics_list == IF topics = <<>> THEN <<"Topic 1">> ELSE topics
           anchor == topics_list[1]
           rows == get_student_progress(student_progress, student_id, subject)
           window == get_local_graph_state_topics(graph, subject, anchor)
           padded == PadTopics(window)
           state_vector == StateVector(padded, rows)
       IN  \E res \in AgentResults(model, Len(state_vector)) :
              /\ model' = res.model
              /\ started' =
                    [student_id |-> student_id, anchor |-> anchor,
                     window |-> window, local_topics |-> padded,
                     state_vector |-> state_vector,
                     action_idx |-> SelectSlot(padded, res.topic_index),
                     topic_name |-> SelectTopic(padded, res.topic_index, anchor)]
    /\ UNCHANGED <<student_progress, learning_logs, graph, reqs, submitted,
                   shadow, overlapped, otherVars>>

\* learning.py:168-173: the request arrives; the session row gives the subject.
Begin(h, env) ==
    /\ reqs[h].pc = "idle"
    \* handlers are interchangeable: a request takes the lowest free one
    /\ \A g \in Handlers : g < h => reqs[g].pc # "idle"
    /\ submitted < env.max_submits
    /\ env.serial => \A g \in Handlers : ~Active(reqs[g])
    /\ \E sid \in env.session_ids, student_id \in env.students,
          topic_name \in env.topic_names, topic_index \in env.topic_indexes,
          difficulty \in env.difficulties :
          \* a client submits to its own session
          /\ HasSession(sid) => student_id = get_session_by_id(sid).student_id
          /\ env.repeat =>
                \A g \in Handlers : g < h =>
                    /\ reqs[g].fail # "None"
                    /\ reqs[g].session_id = sid /\ reqs[g].student_id = student_id
                    /\ reqs[g].topic_name = topic_name
                    /\ reqs[g].topic_index = topic_index
                    /\ reqs[g].difficulty = difficulty
          /\ reqs' = [reqs EXCEPT ![h] =
                [IdleReq EXCEPT !.pc = "grading", !.session_id = sid,
                    !.student_id = student_id, !.topic_name = topic_name,
                    !.topic_index = topic_index, !.difficulty = difficulty,
                    !.progress_before =
                        IF env.serial THEN student_progress ELSE <<>>,
                    !.logs_before = IF env.serial THEN learning_logs ELSE <<>>,
                    !.subject = IF HasSession(sid)
                                THEN get_session_by_id(sid).subject
                                ELSE "General"]]
          /\ overlapped' =
                IF \E g \in Handlers \ {h} :
                      Active(reqs[g]) /\ reqs[g].student_id = student_id
                THEN overlapped \cup {student_id} ELSE overlapped
    /\ submitted' = submitted + 1
    /\ UNCHANGED <<started, learning_sessions, student_progress, learning_logs, graph,
                   shadow, model, otherVars>>
SubmitAnswer_Begin(h) == Begin(h, RaceEnv)

\* learning.py:193-239: the grader answers (or the call raises, which ends
\* the request with HTTP 500, or the await at line 195 never completes);
\* the topic key is aligned with the exam's list.
Grade(h, env) ==
    /\ reqs[h].pc = "grading"
    /\ \E resp \in env.grader :
          IF resp.kind = "raise"
          THEN reqs' = [reqs EXCEPT ![h].pc = "error"]
          ELSE IF resp.kind = "never"
          THEN reqs' = [reqs EXCEPT ![h].pc = "waiting"]
          ELSE LET r == reqs[h]
                   g == ParseGrade(resp)
                   key == RequestTopicKey(r.topic_name, r.topic_index)
                   authorized_list ==
                       IF HasSession(r.session_id)
                       THEN get_evaluation_topics(get_session_by_id(r.session_id).exam_id)
                       ELSE <<>>
               IN  reqs' = [reqs EXCEPT ![h] =
                       [r EXCEPT !.pc = "read", !.score = g.score,
                           !.feedback = g.feedback, !.correct = g.correct,
                           !.topic_key = AlignTopic(key, authorized_list)]]
    /\ UNCHANGED <<started, learning_sessions, student_progress, learning_logs, graph,
                   submitted, shadow, overlapped, model, otherVars>>
SubmitAnswer_Grade(h) == Grade(h, RaceEnv)

\* learning.py:241-244: read the mastery map, compute the new mastery.
SubmitAnswer_ReadProgress(h) ==
    /\ reqs[h].pc = "read"
    /\ LET r == reqs[h]
           mastery_map == get_student_progress(student_progress, r.student_id, r.subject)
           prev_m == MapGet(mastery_map, r.topic_key, P_INIT)
       IN  reqs' = [reqs EXCEPT ![h] =
               [r EXCEPT !.pc = "write", !.prev_m = prev_m,
                         !.new_m = update_bkt(prev_m, r.score)]]
    /\ UNCHANGED <<started, learning_sessions, student_progress, learning_logs, graph,
                   submitted, shadow, overlapped, model, otherVars>>

\* learning.py:246-260 and database.py:356-366, 441-459: write the new
\* mastery, then append the learning step.
\* Mutant: the reward logged is the new mastery.
LogData_mastery_reward(r) ==
    [session_id |-> r.session_id, student_id |-> r.student_id,
     topic |-> r.topic_key, difficulty |-> r.difficulty,
     score |-> r.score, feedback |-> r.feedback,
     mastery_before |-> r.prev_m, mastery_after |-> r.new_m,
     action_taken |-> ActionTaken(r.topic_index, r.difficulty),
     reward |-> r.new_m]
\* learning.py:249-260: the dict passed to log_learning_step.
LogData(r) ==
    [session_id |-> r.session_id, student_id |-> r.student_id,
     topic |-> r.topic_key, difficulty |-> r.difficulty,
     score |-> r.score, feedback |-> r.feedback,
     mastery_before |-> r.prev_m, mastery_after |-> r.new_m,
     action_taken |-> ActionTaken(r.topic_index, r.difficulty),
     reward |-> r.score]
\* database.py:441-459: INSERT INTO learning_logs.
log_learning_step(logs, log_data) == Append(logs, log_data)

\* A statement of the store that raises ends the request in the handler's
\* except clause (learning.py:387-391): HTTP 500.
Persist(h, env) ==
    /\ reqs[h].pc = "write"
    /\ \E outcome \in env.store :
        LET r == reqs[h]
            k == <<r.student_id, r.subject, r.topic_key>>
            before == IF k \in DOMAIN shadow THEN shadow[k] ELSE P_INIT
        IN  /\ IF outcome = "write_fails"
               THEN UNCHANGED <<student_progress, shadow>>
               ELSE /\ student_progress' = update_student_progress(
                          student_progress, r.student_id, r.subject,
                          r.topic_key, r.new_m)
                    /\ shadow' = (k :> update_bkt(before, r.score)) @@ shadow
            /\ IF outcome = "ok"
               THEN learning_logs' = log_learning_step(learning_logs, LogData(r))
               ELSE UNCHANGED learning_logs
            /\ reqs' = [reqs EXCEPT ![h] =
                   IF outcome = "ok" THEN [r EXCEPT !.pc = "decide"]
                   ELSE [r EXCEPT !.pc = "error",
                            !.fail = IF outcome = "write_fails" THEN "write"
                                     ELSE "log"]]
    /\ UNCHANGED <<started, learning_sessions, graph, submitted, overlapped, model,
                   otherVars>>
SubmitAnswer_Persist(h) == Persist(h, RaceEnv)

\* What qg.run_batch_query can return: a list with a question, or [].
QuestionBatches == {<<"generated">>, <<>>}
\* learning.py:372-373: questions[0], or the generic question; either way a
\* dict with a text, an answer and the topic.
NextQuestion(questions) == "question"

\* learning.py:264-276: after a failed attempt, the possible results of the
\* bottleneck lookup (the stores return rows in any order).
Bottlenecks(r) ==
    IF r.correct THEN {"None"}
    ELSE {get_mastery_bottleneck(graph.driver, prereqs, rows) :
            prereqs \in get_prerequisites(graph, r.subject, r.topic_key),
            rows \in Orderings(get_student_progress(student_progress,
                                                    r.student_id, r.subject))}

\* learning.py:275-276: a lookup that raises is logged and counts as no
\* bottleneck.
BottleneckResults(r, raises) ==
    IF raises /\ ~r.correct THEN {"None"} ELSE Bottlenecks(r)

\* learning.py:262-385: choose the next topic and difficulty, by remediation
\* or else by the agent, and answer with the next question. Without a
\* session row, session_info.get raises (line 285 or 342): HTTP 500.
Decide(h, env) ==
    /\ reqs[h].pc = "decide"
    /\ LET r == reqs[h] IN
       \E lookup_raises \in env.graph_raises, window_raises \in env.graph_raises :
       \E bottleneck \in BottleneckResults(r, lookup_raises) :
         LET next == IF r.correct THEN [next_topic_name |-> "None", next_diff |-> "None"]
                     ELSE Remediate(bottleneck)
         IN
         IF next.next_topic_name # "None"
         THEN \* remediation keeps next_topic_name and next_diff
              /\ UNCHANGED model
              /\ IF ~HasSession(r.session_id)
                 THEN reqs' = [reqs EXCEPT ![h] =
                         [r EXCEPT !.pc = "error", !.bottleneck = bottleneck,
                             !.lookup_called = ~r.correct]]
                 ELSE \E questions \in QuestionBatches :
                         reqs' = [reqs EXCEPT ![h] =
                             [r EXCEPT !.pc = "done", !.bottleneck = bottleneck,
                                 !.lookup_called = ~r.correct,
                                 !.next_topic_name = next.next_topic_name,
                                 !.next_diff = next.next_diff,
                                 !.next_question = NextQuestion(questions)]]
         ELSE IF ~HasSession(r.session_id)
              THEN /\ UNCHANGED model
                   /\ reqs' = [reqs EXCEPT ![h] =
                         [r EXCEPT !.pc = "error", !.bottleneck = bottleneck,
                             !.lookup_called = ~r.correct]]
              ELSE LET mastery_map_updated ==
                           get_student_progress(student_progress, r.student_id, r.subject)
                       window ==
                           LocalTopics(graph, r.subject, r.topic_key, window_raises)
                       padded == PadTopics(window)
                       state_vector == StateVector(padded, mastery_map_updated)
                   IN  \E res \in AgentResults(model, Len(state_vector)),
                          questions \in QuestionBatches :
                          /\ model' = res.model
                          /\ reqs' = [reqs EXCEPT ![h] =
                                [r EXCEPT !.pc = "done", !.bottleneck = bottleneck,
                                    !.lookup_called = ~r.correct,
                                    !.agent_called = TRUE,
                                    !.window = window, !.local_topics = padded,
                                    !.state_vector = state_vector,
                                    !.action_idx = res.topic_index,
                                    !.next_diff = res.difficulty,
                                    !.next_topic_name =
                                        SelectTopic(padded, res.topic_index, r.topic_key),
                                    !.next_question = NextQuestion(questions)]]
    /\ UNCHANGED <<started, learning_sessions, student_progress, learning_logs, graph,
                   submitted, shadow, overlapped, otherVars>>
SubmitAnswer_Decide(h) == Decide(h, RaceEnv)

\* The client has the response (or the HTTP 500); the coroutine is gone.
SubmitAnswer_Return(h) ==
    /\ reqs[h].pc \in {"done", "error"}
    /\ reqs' = [reqs EXCEPT ![h] = IdleReq]
    /\ UNCHANGED <<started, learning_sessions, student_progress, learning_logs, graph,
                   submitted, shadow, overlapped, model, otherVars>>

StartSession ==
    \E student_id \in Students, subject \in StartSubjects, exam_id \in ExamIds :
        start_session(student_id, subject, exam_id)

Next ==
    \/ StartSession
    \/ \E h \in Handlers :
          \/ SubmitAnswer_Begin(h)
          \/ SubmitAnswer_Grade(h)
          \/ SubmitAnswer_ReadProgress(h)
          \/ SubmitAnswer_Persist(h)
          \/ SubmitAnswer_Decide(h)
          \/ SubmitAnswer_Return(h)

Spec == Init /\ [][Next]_vars

\* -------------------------------------------------------------- SpecFaults
\* One student's submission, and its repetition when it ended in a store
\* error, against collaborators and stores that can fail. Requests carry what the request
\* schema admits (learning.py:48-57): any session id, any topic name, any
\* integer topic_index, any difficulty string. A finished request stays in its
\* handler slot, so that the repetition can be compared with it.
UnknownSession == 0 - 1
\* The grading call never completes.
GraderSilence == [kind |-> "never", raw |-> 0, says_correct |-> FALSE]
\* JSON scores off the 0..1 and 0..10 scales: 15 and -0.5.
GraderOffScale ==
    [kind : {"json"}, raw : {15 * Scale, 0 - Frac(1, 2)}, says_correct : {FALSE}]
FaultEnv ==
    [serial |-> TRUE, repeat |-> TRUE, max_submits |-> Cardinality(Handlers),
     students |-> {1},
     session_ids |-> DOMAIN learning_sessions \cup {UnknownSession},
     topic_names |-> {"recursion", "Padding_Topic"},
     topic_indexes |-> {0, 9}, difficulties |-> {"Medium", "Expert"},
     grader |-> GraderResponses \cup GraderOffScale \cup {GraderSilence},
     store |-> {"ok", "write_fails", "log_fails"},
     graph_raises |-> BOOLEAN]

FaultsStart ==
    \E subject \in StartSubjects, exam_id \in ExamIds :
        start_session(1, subject, exam_id)
FaultsNext ==
    \/ FaultsStart
    \/ \E h \in Handlers :
          \/ Begin(h, FaultEnv)
          \/ Grade(h, FaultEnv)
          \/ SubmitAnswer_ReadProgress(h)
          \/ Persist(h, FaultEnv)
          \/ Decide(h, FaultEnv)
SpecFaults == Init /\ [][FaultsNext]_vars
\* Every handler that can take a step eventually takes one: the event loop
\* runs every coroutine whose await has completed, and the stores, the
\* graph, the agent and the question generator answer. Nothing is assumed
\* of clients, nor of the grader beyond Grade's outcomes. Decide can always
\* take its step, so its fairness is stated as leaving "decide".
SpecFaultsFair ==
    /\ SpecFaults
    /\ \A h \in Handlers :
          /\ WF_vars(Grade(h, FaultEnv))
          /\ WF_vars(SubmitAnswer_ReadProgress(h))
          /\ WF_vars(Persist(h, FaultEnv))
          /\ []<>(reqs[h].pc # "decide")

\* ------------------------------------------------------------- claims C3, C4
InUnit(x) == ~IsNaN(x) /\ 0 <= x /\ x <= Scale

\* C3: for every prior p in [0,1] and every score s in [0,1],
\* update_bkt(p, s) lies in [0.05, 0.95].
C3_UpdateInClampRange ==
    (bktPc = "done" /\ InUnit(bktPrior) /\ InUnit(bktScore))
        => (Frac(5, 100) <= bktOut /\ bktOut <= Frac(95, 100))
\* A prior and a score in [0,1] whose unclamped update falls below 0.05.
C3_Witness ==
    /\ bktPc = "done" /\ InUnit(bktPrior) /\ InUnit(bktScore)
    /\ 3 * bktPrior + bktScore < 4 * Frac(5, 100)
    /\ bktOut = Frac(5, 100)

\* C4: update_bkt(prior, score) is prior + 0.25 * (score - prior), i.e.
\* (3 * prior + score) / 4, clamped into [0.05, 0.95]; update_bkt(0.5, 0.2)
\* is 0.425; the result depends on prior and score alone.
C4_UpdateIsClampedEma ==
    bktPc = "done" =>
        LET ema4 == 3 * bktPrior + bktScore
        IN  /\ ema4 < 4 * Frac(5, 100) => bktOut = Frac(5, 100)
            /\ ema4 > 4 * Frac(95, 100) => bktOut = Frac(95, 100)
            /\ (4 * Frac(5, 100) <= ema4 /\ ema4 <= 4 * Frac(95, 100))
                    => 4 * bktOut = ema4
            /\ (bktPrior = Frac(1, 2) /\ bktScore = Frac(1, 5))
                    => bktOut = Frac(425, 1000)
\* The worked example: prior 0.5, score 0.2, result 0.425.
C4_Witness ==
    /\ bktPc = "done" /\ bktPrior = Frac(1, 2) /\ bktScore = Frac(1, 5)
    /\ bktOut = Frac(425, 1000)

\* --------------------------------------------------------- claims C6, C7, C8
DifficultyIndex(d) == CHOOSE i \in 0..2 : diff_map[i + 1] = d

\* C6: for every 9-entry observation, get_next_action returns a topic slot in
\* [0,9), a difficulty of Easy/Medium/Hard and a raw_action equal to
\* slot * 3 + difficulty index, so that raw_action // 3 and raw_action % 3
\* give back the slot and the difficulty.
C6_ActionEncodingRoundTrip ==
    (lastObsLen = WINDOW_SIZE) =>
        /\ "topic_index" \in DOMAIN lastAction
        /\ lastAction.topic_index \in 0..(WINDOW_SIZE - 1)
        /\ lastAction.difficulty \in {"Easy", "Medium", "Hard"}
        /\ lastAction.raw_action =
               lastAction.topic_index * 3 + DifficultyIndex(lastAction.difficulty)
        /\ lastAction.raw_action \div 3 = lastAction.topic_index
        /\ lastAction.raw_action % 3 = DifficultyIndex(lastAction.difficulty)

\* C7: over any sequence of get_next_action calls the artifact load is
\* attempted at most once; a failed load is not attempted again.
C7_LoadAttemptedAtMostOnce == loadAttempts <= 1

\* C8: when several callers invoke get_next_action before the artifact is
\* loaded, no two of them both execute the load.
C8_NoTwoCallersLoad == Cardinality(loaders) <= 1

\* ------------------------------------------------------------------ claim C2
SetMax(S) == CHOOSE x \in S : \A y \in S : y <= x
SetMin(S) == CHOOSE x \in S : \A y \in S : x <= y

\* The mastery of the record whose topic is exactly p; 0.1 without one.
ExactMastery(p, rows) ==
    LET hit == {j \in 1..Len(rows) : rows[j].topic = p}
    IN  IF hit = {} THEN Frac(1, 10) ELSE rows[SetMax(hit)].mastery
\* The mastery of the last record whose topic equals p ignoring letter
\* case; 0.1 without one.
FoldedMastery(p, rows) ==
    LET hit == {j \in 1..Len(rows) : Lower(rows[j].topic) = Lower(p)}
    IN  IF hit = {} THEN Frac(1, 10) ELSE rows[SetMax(hit)].mastery

Returned(r) == r.pc = "done"

\* C1: when the submitted answer scores below 0.6 and get_mastery_bottleneck
\* returns a topic, submit_answer answers with that topic as the next topic
\* at difficulty Easy, and get_next_action is not called in that step.
C1_RemediationOverridesPolicy ==
    \A h \in Handlers :
        (reqs[h].pc \in {"done", "error"} /\ FLt(reqs[h].score, Frac(6, 10))
            /\ reqs[h].bottleneck # "None")
        => /\ ~reqs[h].agent_called
           /\ Returned(reqs[h]) =>
                /\ reqs[h].next_topic_name = reqs[h].bottleneck
                /\ reqs[h].next_diff = "Easy"
\* A failed attempt on Recursion answered with its unmastered prerequisite.
C1_Witness ==
    \E h \in Handlers :
        /\ Returned(reqs[h]) /\ reqs[h].score = Frac(1, 5)
        /\ reqs[h].topic_key = "Recursion" /\ reqs[h].bottleneck = "Loops"
        /\ reqs[h].next_topic_name = "Loops" /\ reqs[h].next_diff = "Easy"
        /\ ~reqs[h].agent_called

\* C5: after any sequence of start_session and submit_answer calls, with any
\* grader responses, every stored mastery lies in [0.05, 0.95].
C5_StoredMasteryInRange ==
    \A k \in DOMAIN student_progress :
        /\ FGe(student_progress[k], Frac(5, 100))
        /\ FGe(Frac(95, 100), student_progress[k])

\* C9: no update is lost: whenever no handler is between its read and its
\* write of a mastery key, the stored value is the one obtained by applying
\* update_bkt for every submitted score one after the other.  Keys that a
\* not-a-number score has reached are left out, so that a violation is a
\* lost update and nothing else.
C9_NoLostUpdate ==
    \A k \in DOMAIN student_progress :
        (/\ \A h \in Handlers :
              ~(reqs[h].pc = "write"
                /\ <<reqs[h].student_id, reqs[h].subject, reqs[h].topic_key>> = k)
         /\ k \in DOMAIN shadow
         /\ ~IsNaN(shadow[k]) /\ ~IsNaN(student_progress[k]))
        => student_progress[k] = shadow[k]

\* C10: when sessions of distinct students run concurrently, every mastery
\* of a student whose own steps ran one at a time is the value obtained by
\* applying update_bkt to that student's scores in order, whatever the other
\* students' handlers did in between; and each such value is stored.
C10_StudentsIndependent ==
    /\ \A k \in DOMAIN student_progress :
          k[1] \notin overlapped =>
              (k \in DOMAIN shadow /\ student_progress[k] = shadow[k])
    /\ \A k \in DOMAIN shadow :
          k[1] \notin overlapped => k \in DOMAIN student_progress
\* Two handlers of different students, both past their writes at once.
C10_Witness ==
    /\ overlapped = {}
    /\ reqs[1].pc = "decide" /\ reqs[2].pc = "decide"
    /\ reqs[1].student_id # reqs[2].student_id
    /\ \A h \in Handlers :
          LET k == <<reqs[h].student_id, reqs[h].subject, reqs[h].topic_key>>
          IN  k \in DOMAIN student_progress
              /\ student_progress[k] = update_bkt(Frac(1, 2), reqs[h].score)

\* --------------------------------------------------------------- claim C11
\* C11: whatever collaborators fail (graph store unavailable, policy
\* artifact missing, grading call raising, question generation returning
\* nothing), submit_answer answers with a next question, a next topic and a
\* next difficulty; a request for an existing session whose store statements
\* all succeeded never ends in an error.
C11_AlwaysANextQuestion ==
    \A h \in Handlers :
        /\ (reqs[h].pc = "error" /\ HasSession(reqs[h].session_id))
              => reqs[h].fail # "None"
        /\ reqs[h].pc = "done"
              => /\ reqs[h].next_question # "None"
                 /\ reqs[h].next_topic_name # "None"
                 /\ reqs[h].next_diff # "None"

\* --------------------------------------------------------------- claim C12
\* C12: when the grader's response cannot be read as a score/feedback pair,
\* the step goes on with score 0 and the raw response text as feedback, and
\* that is what the learning-step entry records.
C12_UnreadableGradeScoresZero ==
    /\ \A h \in Handlers :
          (reqs[h].pc \in {"read", "write", "decide", "done"}
              /\ reqs[h].feedback = "clean_text")
          => reqs[h].score = 0
    /\ \A i \in DOMAIN learning_logs :
          learning_logs[i].feedback = "clean_text" => learning_logs[i].score = 0

\* --------------------------------------------------------------- claim C13
\* C13: every submit_answer step that has started grading eventually
\* returns to its caller, with an answer or an error, also when the grading
\* collaborator never answers.
C13_EveryStepReturns ==
    \A h \in Handlers :
        (reqs[h].pc = "grading") ~> (reqs[h].pc \in {"done", "error"})

\* --------------------------------------------------------------- claim C14
\* The handler h passes its store statements in this step.
PassesPersist(h) == reqs[h].pc = "write" /\ reqs'[h].pc = "decide"
\* C14: every submit_answer step that gets past grading appends exactly one
\* learning-step entry, its own, in which reward equals score and
\* mastery_after equals update_bkt(mastery_before, score); no step changes
\* or removes an entry already in the log, and no other step appends.
C14_OneLogEntryPerStep ==
    [][/\ \A i \in DOMAIN learning_logs :
             i \in DOMAIN learning_logs' /\ learning_logs'[i] = learning_logs[i]
       /\ \A h \in Handlers : PassesPersist(h) =>
             /\ Len(learning_logs') = Len(learning_logs) + 1
             /\ LET e == learning_logs'[Len(learning_logs')]
                IN  /\ e.session_id = reqs[h].session_id
                    /\ e.student_id = reqs[h].student_id
                    /\ e.topic = reqs[h].topic_key
                    /\ e.score = reqs[h].score
                    /\ e.reward = e.score
                    /\ e.mastery_after = update_bkt(e.mastery_before, e.score)
       /\ (\A h \in Handlers : ~PassesPersist(h)) =>
             learning_logs' = learning_logs]_vars
\* Two handlers have appended their entries, the second one's between the
\* first one's append and its answer.
C14_Witness ==
    /\ Len(learning_logs) = 2
    /\ learning_logs[1].session_id # learning_logs[2].session_id
    /\ learning_logs[1].score = Frac(1, 5)
    /\ learning_logs[1].reward = Frac(1, 5)
    /\ learning_logs[1].mastery_before = P_INIT
    /\ learning_logs[1].mastery_after = Frac(425, 1000)
    /\ \A h \in Handlers : reqs[h].pc = "decide"

\* --------------------------------------------------------------- claim C15
\* C15: every action_taken that submit_answer logs lies in the 27-way action
\* space, with action \div 3 a slot of the 9-slot window and action % 3 the
\* index of the attempted difficulty, whatever topic_index and difficulty the
\* request carries.
C15_LoggedActionInActionSpace ==
    \A i \in DOMAIN learning_logs :
        LET a == learning_logs[i].action_taken
            d == learning_logs[i].difficulty
        IN  /\ 0 <= a /\ a < WINDOW_SIZE * Len(diff_map)
            /\ a \div 3 \in 0..(WINDOW_SIZE - 1)
            /\ d \in {"Easy", "Medium", "Hard"} => a % 3 = DifficultyIndex(d)

\* --------------------------------------------------------------- claim C16
\* The handler h reads the mastery map in this step.
ReadsProgress(h) == reqs[h].pc = "read" /\ reqs'[h].pc = "write"
\* The mastery key of the request in slot h: the student, the subject of
\* the request's session and the attempted topic.
MasteryKey(h) ==
    <<reqs[h].student_id, get_session_by_id(reqs[h].session_id).subject,
      reqs[h].topic_key>>
\* C16: start_session writes no mastery record; a submit_answer step writes
\* the mastery store in one place only, where it sets the one record keyed by
\* (student, the session's subject, the attempted topic) and leaves every
\* other record as it is; the prior of a topic without a record is 0.5.
C16_OneMasteryRecordWritten ==
    [][/\ (\A h \in Handlers : ~PassesPersist(h)) =>
             student_progress' = student_progress
       /\ \A h \in Handlers : PassesPersist(h) =>
             /\ DOMAIN student_progress' =
                    DOMAIN student_progress \cup {MasteryKey(h)}
             /\ \A k \in DOMAIN student_progress \ {MasteryKey(h)} :
                    student_progress'[k] = student_progress[k]
             /\ student_progress'[MasteryKey(h)] =
                    update_bkt(reqs[h].prev_m, reqs[h].score)
       /\ \A h \in Handlers : ReadsProgress(h) =>
             reqs'[h].prev_m = IF MasteryKey(h) \in DOMAIN student_progress
                               THEN student_progress[MasteryKey(h)]
                               ELSE Frac(1, 2)]_vars
\* The second student's first record is written next to the first
\* student's, which stays as it was.
C16_Witness ==
    /\ Cardinality(DOMAIN student_progress) = 2
    /\ \E h \in Handlers :
          /\ reqs[h].pc = "decide" /\ reqs[h].prev_m = Frac(1, 2)
          /\ reqs[h].student_id = 2
          /\ student_progress[MasteryKey(h)] = update_bkt(Frac(1, 2), reqs[h].score)
          /\ <<1, "CS101", "Recursion">> \in DOMAIN student_progress

\* --------------------------------------------------------------- claim C17
\* The request in slot h has made its store writes.
Persisted(h) == reqs[h].pc \in {"decide", "done"}
\* C17: a submission whose mastery write or log append failed ends in an
\* error, and it can be repeated: once the repetition, graded with the same
\* score, has made its writes, the topic's mastery is update_bkt(prior,
\* score) for the prior the failed attempt read, the score applied once.
C17_RepetitionAppliesScoreOnce ==
    \A g, h \in Handlers :
        (/\ g < h /\ reqs[g].pc = "error" /\ reqs[g].fail # "None"
         /\ HasSession(reqs[g].session_id)
         /\ Persisted(h) /\ reqs[h].score = reqs[g].score)
        => student_progress[<<reqs[h].student_id, reqs[h].subject,
                              reqs[h].topic_key>>]
              = update_bkt(reqs[g].prev_m, reqs[g].score)

\* C18: the window get_local_graph_state_topics returns never holds the
\* same topic twice -- no two entries name one topic, names compared as the
\* query's own match compares them -- and its entry at index 0 is the anchor
\* as the caller passed it; for every graph, cyclic ones included, and
\* every spelling of the anchor.
C18_WindowDistinctAnchorFirst ==
    gwPc = "done" =>
        /\ Len(gwOut) >= 1 /\ gwOut[1] = gwAnchor
        /\ \A i, j \in DOMAIN gwOut : Lower(gwOut[i]) = Lower(gwOut[j]) => i = j

\* The distinct topics of a set of query rows, each at its least distance.
NearestRows(R) ==
    {[name |-> n, dist |-> SetMin({r.dist : r \in {q \in R : q.name = n}}), id |-> 0] :
        n \in {r.name : r \in R}}
\* The topics within MAX_HOPS prerequisite hops before and after the anchor.
Ancestors == NearestRows(PrereqRows(gwGraph, "CS101", gwAnchor))
Descendants == NearestRows(PostreqRows(gwGraph, "CS101", gwAnchor))
\* The query ran: driver present and nothing raised; the anchor is spelled
\* as stored and lies on no prerequisite cycle.
PlainWindowCall ==
    /\ gwPc = "done" /\ gwGraph.driver /\ ~gwRaises
    /\ <<"CS101", gwAnchor>> \in gwGraph.hasTopic
    /\ \A r \in Ancestors : r.name # gwAnchor

\* C19: the window is the anchor, then the up to 4 nearest distinct
\* ancestors within 5 hops, then the up to 4 nearest distinct descendants
\* within 5 hops, each group by increasing hop distance and then by name (so
\* 4 of them appear whenever 4 exist), and it has at most 9 entries.
C19_WindowIsNearestDistinctTopics ==
    PlainWindowCall =>
        /\ gwOut = <<gwAnchor>> \o TakeOrdered(Ancestors, ARM_LIMIT)
                                \o TakeOrdered(Descendants, ARM_LIMIT)
        /\ Len(gwOut) <= WINDOW_SIZE

\* No PREREQUISITE_OF edge starts or ends at the topic the anchor matches.
AnchorHasNoEdges ==
    \A e \in gwGraph.prereqOf :
        Lower(e[1]) # Lower(gwAnchor) /\ Lower(e[2]) # Lower(gwAnchor)

\* C20: get_local_graph_state_topics returns exactly [anchor] when the
\* anchor has no prerequisite edges, when the graph driver is absent, and
\* when a graph query raises.
C20_AnchorAloneWhenNothingToProject ==
    (gwPc = "done" /\ (AnchorHasNoEdges \/ ~gwGraph.driver \/ gwRaises))
        => gwOut = <<gwAnchor>>
\* A query raised on a graph in which the anchor does have edges.
C20_Witness ==
    /\ gwPc = "done" /\ gwGraph.driver /\ gwRaises /\ ~AnchorHasNoEdges
    /\ gwOut = <<gwAnchor>>

\* An observation built from a projected window and a mastery map: 9
\* entries, the window's topics first, each at its stored mastery (0.5
\* without a record), then padding at 0.1 up to 9 and no further.
IsObservationOf(window, local_topics, state_vector, rows) ==
    /\ Len(window) <= WINDOW_SIZE
    /\ Len(local_topics) = WINDOW_SIZE /\ Len(state_vector) = WINDOW_SIZE
    /\ \A i \in 1..WINDOW_SIZE :
          IF i <= Len(window)
          THEN /\ local_topics[i] = window[i]
               /\ state_vector[i] = MapGet(rows, window[i], P_INIT)
          ELSE /\ local_topics[i] = PAD_NAME
               /\ state_vector[i] = PAD_VALUE

FallbackOutcomes ==
    {get_next_action(load_model(model, outcome), obsLen, bucket, action_raw) :
        outcome \in {o \in LoadOutcomes : load_model(model, o) = "None"},
        obsLen \in ObsLengths, bucket \in 0..2, action_raw \in PolicyActions}
        \cup
    {get_next_action(load_model(model, outcome), obsLen, bucket, action_raw) :
        outcome \in LoadOutcomes, obsLen \in ObsLengths \ {WINDOW_SIZE},
        bucket \in 0..2, action_raw \in PolicyActions}
\* The slot an answer of the agent carries: the topic_index the callers
\* read, or else its bucket_index.
ActionSlot(action) ==
    IF "topic_index" \in DOMAIN action THEN action.topic_index
    ELSE action.bucket_index

\* C22: without a loaded policy, or with an observation not 9 long,
\* get_next_action draws the topic slot among the 9 slots and the difficulty
\* among Easy, Medium and Hard independently: every (slot, difficulty) pair
\* is a possible outcome of the call.
C22_FallbackCoversEveryPair ==
    agentPending # {} =>
        \A slot \in 0..(WINDOW_SIZE - 1), d \in {"Easy", "Medium", "Hard"} :
            \E action \in FallbackOutcomes :
                ActionSlot(action) = slot /\ ActionDifficulty(action) = d

\* The step in which handler h leaves the decision part of submit_answer.
LeavesDecide(h) == reqs[h].pc = "decide" /\ reqs'[h].pc # "decide"
\* After that step: the window was projected around the attempted topic and
\* get_next_action was called, once, and gave the next difficulty.
ConsultedAgent(h) ==
    /\ reqs'[h].pc = "done" /\ reqs'[h].agent_called
    /\ reqs'[h].window \in
          {LocalTopics(graph, reqs[h].subject, reqs[h].topic_key, raises) :
              raises \in BOOLEAN}
    /\ reqs'[h].next_diff \in {"Easy", "Medium", "Hard"}

\* C23: with a score of at least 0.6 submit_answer does not call
\* get_mastery_bottleneck; with a score of at least 0.6, or a lower one and
\* no bottleneck found (or the lookup raising), it projects the window
\* around the just-attempted topic and calls get_next_action exactly once
\* for the next difficulty.
C23_PolicyPathWhenNoRemediation ==
    [][\A h \in Handlers : (LeavesDecide(h) /\ ~IsNaN(reqs[h].score)) =>
          /\ FGe(reqs[h].score, PASS_THRESHOLD) => ~reqs'[h].lookup_called
          /\ (FGe(reqs[h].score, PASS_THRESHOLD) \/ reqs'[h].bottleneck = "None")
                => ConsultedAgent(h)]_vars

\* The slot read from the agent's answer is no slot of the window, or holds
\* a padding entry.
SlotUnusable(local_topics, action_idx) ==
    \/ action_idx \notin 0..(WINDOW_SIZE - 1)
    \/ local_topics[action_idx + 1] = PAD_NAME

\* C24: the topic start_session and submit_answer emit is never the padding
\* sentinel name; when the decoded slot is outside [0,9) or holds a padding
\* entry, the anchor topic is emitted instead.
C24_EmittedTopicNeverPadding ==
    /\ started # NoStart => started.topic_name # PAD_NAME
    /\ \A h \in Handlers : (reqs[h].pc = "done" /\ ~IsNaN(reqs[h].score)) =>
          /\ reqs[h].next_topic_name # PAD_NAME
          /\ (reqs[h].agent_called
                /\ SlotUnusable(reqs[h].local_topics, reqs[h].action_idx))
                => reqs[h].next_topic_name = reqs[h].topic_key

\* C25: a prerequisite edge belongs to one subject: whatever create_topic
\* and add_prerequisite calls the syncs made, get_prerequisites(S2, t)
\* returns only prerequisites that were recorded for t while syncing S2,
\* never one recorded only for another subject, also when the subjects
\* share topic names.
C25_PrerequisitesScopedToSubject ==
    kgQuery # <<>> =>
        \A i \in DOMAIN kgOut :
            \E rec \in kgRecorded :
                /\ Lower(rec[1]) = Lower(kgQuery[1])
                /\ rec[2] = kgOut[i]
                /\ Lower(rec[3]) = Lower(kgQuery[2])

\* C26: update_bkt(p, p) = p for every p in [0.05, 0.95], and
\* update_bkt(p, p) differs from p for every p in [0,1] outside that range.
C26_FixedPointExactlyInClampRange ==
    (bktPc = "done" /\ bktScore = bktPrior /\ InUnit(bktPrior)) =>
        ((MasteryFloor <= bktPrior /\ bktPrior <= MasteryCeil)
            <=> bktOut = bktPrior)
\* The score equals the prior at the lower clamp bound 0.05, and the update
\* returns it.
C26_Witness ==
    /\ bktPc = "done" /\ bktScore = bktPrior /\ bktPrior = MasteryFloor
    /\ bktOut = bktPrior

\* The text holds a brace-delimited object: an opening brace with a closing
\* brace somewhere after it.
HasBraceObject(text) ==
    \E i, j \in DOMAIN text : i < j /\ text[i] = "{" /\ text[j] = "}"
FirstOpen(text) ==
    CHOOSE i \in DOMAIN text : text[i] = "{" /\ \A k \in DOMAIN text : text[k] = "{" => i <= k
LastClose(text) ==
    CHOOSE j \in DOMAIN text : text[j] = "}" /\ \A k \in DOMAIN text : text[k] = "}" => k <= j

EmittableTopics(local_topics, anchor) ==
    {SelectTopic(local_topics, res.topic_index, anchor) :
        res \in AgentResults(model, Len(local_topics))}

\* C28: in the policy path of submit_answer the next topic is the window's
\* topic at the slot the agent decided, so every real topic of the window
\* can be the next topic, not only the just-attempted one; likewise
\* start_session can emit every real topic of the window around the anchor.
C28_AnyWindowTopicCanBeNext ==
    /\ started # NoStart =>
          \A i \in DOMAIN started.window :
              started.window[i] \in EmittableTopics(started.local_topics, started.anchor)
    /\ \A h \in Handlers :
          (reqs[h].pc = "done" /\ reqs[h].agent_called) =>
              \A i \in DOMAIN reqs[h].window :
                  reqs[h].window[i] \in
                      EmittableTopics(reqs[h].local_topics, reqs[h].topic_key)

\* C29: the score submit_answer passes to update_bkt, logs as score and as
\* reward, and returns lies in [0,1] whatever the grading collaborator
\* answers, numeric scores above 1, above 10 or below 0 included.
C29_ScoreInUnitInterval ==
    /\ \A h \in Handlers :
          (reqs[h].pc \in {"read", "write", "decide", "done"}
                /\ HasSession(reqs[h].session_id)
                /\ ~IsNaN(reqs[h].score)) => InUnit(reqs[h].score)
    /\ \A i \in DOMAIN learning_logs :
          (HasSession(learning_logs[i].session_id)
                /\ ~IsNaN(learning_logs[i].score)) =>
              InUnit(learning_logs[i].score) /\ InUnit(learning_logs[i].reward)

\* C30: whenever submit_answer ends with an error response the mastery
\* store and the learning-step log are as they were before the call; in
\* particular a request for a session id without a session row writes no
\* mastery record and appends no log entry. (Stated for requests during
\* which no store statement raises.)
C30_ErrorLeavesStoresUntouched ==
    [][\A h \in Handlers :
          (reqs[h].pc # "error" /\ reqs'[h].pc = "error"
                /\ reqs'[h].fail = "None" /\ ~IsNaN(reqs'[h].score)) =>
              /\ student_progress' = reqs[h].progress_before
              /\ learning_logs' = reqs[h].logs_before]_vars

====
